---- MODULE Spec2Model ----
(***************************************************************************)
(* Model of server.js: an Express server that stores an uploaded           *)
(* container with multer, probes it with ffprobe, drives ffmpeg once per   *)
(* stream to produce HLS output under output/<jobId>, and writes           *)
(* master.m3u8.  Every awaited external call (ffprobe, ffmpeg) is a pair   *)
(* of steps: the call is issued by the step that reaches it, and its       *)
(* callback is a later step.  JavaScript callbacks run on one main thread; *)
(* asynchronous fs calls of the static file server and of /videos run on   *)
(* the libuv thread pool.                                                  *)
(***************************************************************************)
EXTENDS Integers, Sequences, FiniteSets, TLC

VARIABLES
  now,          \* value of Date.now()
  req,          \* the multipart requests the clients send (fixed input)
  jobs,         \* per request: position and locals of the /upload handler
  uploads,      \* files in uploads/: [filename, metadata]
  dirs,         \* directories in output/
  files,        \* files in output/<dir>/: [dir, name, by, data]
  pendingRead,  \* express.static: requested path whose fs read is pending
  vsnap         \* GET /videos: result of readdir awaiting its continuation

vars == <<now, req, jobs, uploads, dirs, files, pendingRead, vsnap>>

(***************************************************************************)
(* Bounds of the model.                                                    *)
(***************************************************************************)
MaxStreams == 3       \* streams in the container of a request sent alone
MaxClock == 1         \* Date.now() ranges over 0..MaxClock

(***************************************************************************)
(* Inputs: elementary streams as ffprobe reports them.                     *)
(***************************************************************************)
Stream(t, c, l) == [codec_type |-> t, codec_name |-> c, language |-> l]

\* language "" stands for a stream without tags.language
StreamKinds ==
  { Stream("video", "h264", ""), Stream("video", "hevc", ""),
    Stream("audio", "aac", "eng"), Stream("audio", "ac3", ""),
    Stream("subtitle", "subrip", "eng"), Stream("subtitle", "ass", "eng"),
    Stream("subtitle", "hdmv_pgs_subtitle", ""),
    Stream("data", "bin_data", "") }

\* metadata.streams[k] of an index the container does not have
Undefined == Stream("undefined", "undefined", "")

Inventories(kinds, n) == UNION {[1..k -> kinds] : k \in 0..n}

\* the container of the round-trip example: H.264 video, AAC and non-AAC
\* audio, one subtitle that is not skipped
RoundTrip ==
  << Stream("video", "h264", ""), Stream("audio", "aac", "eng"),
     Stream("audio", "ac3", ""), Stream("subtitle", "ass", "eng") >>

OriginalName(b, e) == [base |-> b, ext |-> e]

Request(f, n, s) == [hasFile |-> f, originalname |-> n, inv |-> s]

SingleRequests ==
  { <<Request(TRUE, OriginalName("a", "mkv"), s)>> :
       s \in Inventories(StreamKinds, MaxStreams) \cup {RoundTrip} }
  \cup { <<Request(FALSE, OriginalName("", ""), <<>>)>> }

\* the containers of two requests that overlap
ConcInventories ==
  { <<>>,
    << Stream("video", "hevc", "") >>,
    << Stream("audio", "aac", "eng"), Stream("subtitle", "ass", "eng") >>,
    << Stream("subtitle", "subrip", "eng"), Stream("subtitle", "ass", "eng") >> }

\* two uploads: of the same file name, or of names that differ in the
\* extension only
OverlappingRequests ==
  { <<Request(TRUE, OriginalName("a", "mkv"), s), Request(TRUE, n, t)>> :
       s \in ConcInventories,
       n \in {OriginalName("a", "mkv"), OriginalName("a", "mp4")},
       t \in ConcInventories }

(***************************************************************************)
(* Pure helpers.                                                           *)
(***************************************************************************)
\* multer filename callback: Date.now() + '-' + file.originalname
Filename(t, n) == [ts |-> t, base |-> n.base, ext |-> n.ext]

\* path.parse(req.file.filename).name: the file name without its extension
JobId(fn) == [ts |-> fn.ts, base |-> fn.base]

\* metadata.streams[k], k counted from 0
StreamAt(metadata, k) ==
  IF k + 1 \in DOMAIN metadata THEN metadata[k + 1] ELSE Undefined

RECURSIVE IndexesOf(_, _, _)
\* the forEach of analyzeStreams restricted to one bucket: indexes
\* k-1 (from 0) of the streams of type t, in container order
IndexesOf(metadata, t, k) ==
  IF k > Len(metadata) THEN <<>>
  ELSE (IF metadata[k].codec_type = t THEN <<k - 1>> ELSE <<>>)
       \o IndexesOf(metadata, t, k + 1)

\* variant: the subtitle bucket is filled by the audio test
BucketsAudioTwice(metadata) ==
  [video |-> IndexesOf(metadata, "video", 1),
   audio |-> IndexesOf(metadata, "audio", 1),
   subtitle |-> IndexesOf(metadata, "audio", 1)]

Buckets(metadata) ==
  [video |-> IndexesOf(metadata, "video", 1),
   audio |-> IndexesOf(metadata, "audio", 1),
   subtitle |-> IndexesOf(metadata, "subtitle", 1)]

\* isAudioStreamAAC: find the audio stream at that index, compare its codec
IsAudioStreamAAC(metadata, streamIndex) ==
  LET s == StreamAt(metadata, streamIndex) IN
  IF s.codec_type = "audio" THEN s.codec_name = "aac" ELSE FALSE

VideoCodecOption(streamInfo) ==
  IF streamInfo.codec_name = "h264" THEN "copy" ELSE "libx264"

\* variant: audio is always re-encoded
AudioCodecOptionEncode(isAAC) == "aac"

AudioCodecOption(isAAC) == IF isAAC THEN "copy" ELSE "aac"

\* variant: only the image-based codec is taken as unsupported
SkipSubtitlePgsOnly(streamInfo) == streamInfo.codec_name = "hdmv_pgs_subtitle"

SkipSubtitle(streamInfo) ==
  streamInfo.codec_name = "hdmv_pgs_subtitle" \/ streamInfo.codec_name = "subrip"

\* streamInfo?.tags?.language || 'und'
Lang(streamInfo) == IF streamInfo.language = "" THEN "und" ELSE streamInfo.language

\* variant: every rendition is flagged DEFAULT=YES
IsDefaultAlways(i) == TRUE

IsDefault(i) == i = 0

\* variant: the variant entry names the next stream's manifest
VideoEntryNext(i) ==
  [tag |-> "STREAM-INF", type |-> "VIDEO", group |-> "", lang |-> "",
   default |-> FALSE, uri |-> [kind |-> "video", i |-> i + 1, ext |-> "m3u8"]]

VideoEntry(i) ==
  [tag |-> "STREAM-INF", type |-> "VIDEO", group |-> "", lang |-> "",
   default |-> FALSE, uri |-> [kind |-> "video", i |-> i, ext |-> "m3u8"]]

AudioEntry(i, lang) ==
  [tag |-> "MEDIA", type |-> "AUDIO", group |-> "audio", lang |-> lang,
   default |-> IsDefault(i), uri |-> [kind |-> "audio", i |-> i, ext |-> "m3u8"]]

SubtitleEntry(i, lang) ==
  [tag |-> "MEDIA", type |-> "SUBTITLES", group |-> "subs", lang |-> lang,
   default |-> IsDefault(i), uri |-> [kind |-> "sub", i |-> i, ext |-> "m3u8"]]

\* variant: the entries joined in the order they were generated
MasterPlaylistVideoFirst(j) ==
  j.playlistEntries \o j.audioEntries \o j.subtitleEntries

MasterPlaylist(j) == j.audioEntries \o j.subtitleEntries \o j.playlistEntries

MasterName == [kind |-> "master", i |-> 0, ext |-> "m3u8"]

File(d, n, r, data) == [dir |-> d, name |-> n, by |-> r, data |-> data]

\* writing a path replaces the file of that path
Put(fs, f) == {g \in fs : ~(g.dir = f.dir /\ g.name = f.name)} \cup {f}

Exists(fs, d, n) == \E g \in fs : g.dir = d /\ g.name = n

Content(fs, d, n) == (CHOOSE g \in fs : g.dir = d /\ g.name = n).data

(***************************************************************************)
(* The /upload handler and createHLSForStreams.                            *)
(* pc names the awaited call the job is suspended at:                      *)
(*   new      request not yet sent                                         *)
(*   analyze  ffprobe of analyzeStreams                                    *)
(*   vprobe   ffprobe of the video loop         vgen  ffmpeg, video        *)
(*   aprobe1  ffprobe of isAudioStreamAAC                                  *)
(*   aprobe2  ffprobe of the audio loop         agen  ffmpeg, audio        *)
(*   sprobe   ffprobe of the subtitle loop      sgen  ffmpeg, subtitle     *)
(*   write    inside fs.writeFileSync of master.m3u8 (file opened)         *)
(*   done     res.json sent       failed   status 500 sent                 *)
(*   crashed  the handler threw outside its try block                      *)
(***************************************************************************)
NewJob ==
  [pc |-> "new", i |-> 0, filename |-> <<>>,
   streams |-> [video |-> <<>>, audio |-> <<>>, subtitle |-> <<>>],
   metadata |-> <<>>, mkdir |-> FALSE,
   isAAC |-> FALSE, seen |-> Undefined, lang |-> "",
   playlistEntries |-> <<>>, audioEntries |-> <<>>, subtitleEntries |-> <<>>,
   probes |-> 0, engines |-> <<>>, skipped |-> <<>>, inflight |-> 0,
   err |-> "", res |-> <<>>]

ProbePcs == {"analyze", "vprobe", "aprobe1", "aprobe2", "sprobe"}
EnginePcs == {"vgen", "agen", "sgen"}

FileOf(j) == j.filename[1]
DirOf(j) == JobId(FileOf(j))

\* the metadata ffprobe reports for the job's upload path now
Metadata(j) == (CHOOSE u \in uploads : u.filename = FileOf(j)).metadata

\* a JavaScript callback can run only when the main thread is not inside
\* a synchronous call
MainIdle == \A r \in DOMAIN jobs : jobs[r].pc # "write"

\* variant: the subtitle loop stops one stream early
SubtitleLoopShort(streams, k) ==
  IF k < Len(streams.subtitle) - 1 THEN [pc |-> "sprobe", i |-> k]
  ELSE [pc |-> "write", i |-> 0]

\* first awaited call reached from the head of each loop with counter k
SubtitleLoop(streams, k) ==
  IF k < Len(streams.subtitle) THEN [pc |-> "sprobe", i |-> k]
  ELSE [pc |-> "write", i |-> 0]

AudioLoop(streams, k) ==
  IF k < Len(streams.audio) THEN [pc |-> "aprobe1", i |-> k]
  ELSE SubtitleLoop(streams, 0)

\* variant: the video loop stops one stream early
VideoLoopShort(streams, k) ==
  IF k < Len(streams.video) - 1 THEN [pc |-> "vprobe", i |-> k]
  ELSE AudioLoop(streams, 0)

VideoLoop(streams, k) ==
  IF k < Len(streams.video) THEN [pc |-> "vprobe", i |-> k]
  ELSE AudioLoop(streams, 0)

NextPos(streams, loop, k) ==
  CASE loop = "video" -> VideoLoop(streams, k)
    [] loop = "audio" -> AudioLoop(streams, k)
    [] OTHER -> SubtitleLoop(streams, k)

\* ffmpeg.ffprobe(filePath, cb): one more probe in flight
CallProbe(j, pc, k) ==
  [j EXCEPT !.pc = pc, !.i = k, !.probes = @ + 1, !.inflight = @ + 1]

\* variant: the stream is mapped by its type-local number
CallEngineMapLocal(j, pc, idx, codec, kind, info) ==
  [j EXCEPT !.pc = pc, !.inflight = @ + 1,
            !.engines = Append(@, [map |-> j.i, codec |-> codec, info |-> info,
                                   out |-> [kind |-> kind, i |-> j.i]])]

\* ffmpeg(filePath)...run(): one more engine invocation in flight; the
\* invocation is logged with -map 0:idx, its codec option, the output
\* name and the probed stream description that decided the option
CallEngine(j, pc, idx, codec, kind, info) ==
  [j EXCEPT !.pc = pc, !.inflight = @ + 1,
            !.engines = Append(@, [map |-> idx, codec |-> codec, info |-> info,
                                   out |-> [kind |-> kind, i |-> j.i]])]

\* variant: the skipped stream still gets its manifest line
SkipButListed(j, idx, info) ==
  [j EXCEPT !.skipped = Append(@, [map |-> idx, info |-> info, i |-> j.i]),
            !.subtitleEntries = Append(@, SubtitleEntry(j.i, Lang(info)))]

\* the subtitle loop's continue: the stream is logged as skipped
Skip(j, idx, info) ==
  [j EXCEPT !.skipped = Append(@, [map |-> idx, info |-> info, i |-> j.i])]

\* variant: the call is not awaited, the next starts while it runs
ReturnedNotAwaited(j) == j

\* a callback of the call in flight has arrived
Returned(j) == [j EXCEPT !.inflight = @ - 1]

\* run the loops from the head of `loop` at counter k up to the next await
LoopHead(j, loop, k) ==
  LET pos == NextPos(j.streams, loop, k) IN
  IF pos.pc = "write" THEN [j EXCEPT !.pc = "write", !.i = 0]
  ELSE CallProbe(j, pos.pc, pos.i)

\* catch (error) of the handler: res.status(500).send(...)
Fail(j, what) ==
  [j EXCEPT !.pc = "failed", !.err = what,
            !.res = Append(@, [status |-> 500, streamUrl |-> <<>>])]

\* the job continues as j2 with output files fs; reaching "write" is
\* fs.writeFileSync having opened master.m3u8 with O_TRUNC
Resume(r, j2, fs) ==
  /\ jobs' = [jobs EXCEPT ![r] = j2]
  /\ files' = IF j2.pc = "write"
              THEN Put(fs, File(DirOf(j2), MasterName, r, <<>>))
              ELSE fs

(***************************************************************************)
(* Actions.                                                                *)
(***************************************************************************)
\* Date.now() advances; it is read only when a request is stored
Tick ==
  /\ now < MaxClock
  /\ \E r \in DOMAIN jobs : jobs[r].pc = "new"
  /\ now' = now + 1
  /\ UNCHANGED <<req, jobs, uploads, dirs, files, pendingRead, vsnap>>

\* POST /upload with a file: multer stores it as Date.now()-originalname,
\* the handler calls analyzeStreams and suspends
Upload(r) ==
  /\ MainIdle
  /\ jobs[r].pc = "new"
  /\ req[r].hasFile
  /\ LET fn == Filename(now, req[r].originalname) IN
       /\ uploads' = {u \in uploads : u.filename # fn}
                       \cup {[filename |-> fn, metadata |-> req[r].inv]}
       /\ jobs' = [jobs EXCEPT
                     ![r] = CallProbe([@ EXCEPT !.filename = <<fn>>], "analyze", 0)]
  /\ UNCHANGED <<now, req, dirs, files, pendingRead, vsnap>>

\* POST /upload without a file part: req.file is undefined and
\* req.file.path throws before the try block; no response is sent
UploadNoFile(r) ==
  /\ MainIdle
  /\ jobs[r].pc = "new"
  /\ ~req[r].hasFile
  /\ jobs' = [jobs EXCEPT ![r] = [@ EXCEPT !.pc = "crashed", !.err = "TypeError"]]
  /\ UNCHANGED <<now, req, uploads, dirs, files, pendingRead, vsnap>>

\* any ffprobe callback with err: the promise rejects, the handler catches
ProbeError(r) ==
  /\ MainIdle
  /\ jobs[r].pc \in ProbePcs
  /\ jobs' = [jobs EXCEPT ![r] = Fail(Returned(@), jobs[r].pc)]
  /\ UNCHANGED <<now, req, uploads, dirs, files, pendingRead, vsnap>>

\* any ffmpeg 'error' event: the promise rejects, the handler catches
EngineError(r) ==
  /\ MainIdle
  /\ jobs[r].pc \in EnginePcs
  /\ jobs' = [jobs EXCEPT ![r] = Fail(Returned(@), jobs[r].pc)]
  /\ UNCHANGED <<now, req, uploads, dirs, files, pendingRead, vsnap>>

\* variant: the directory is not made
MkdirSyncOmitted(ds, d) == ds

\* fs.mkdirSync(outputPath, { recursive: true })
MkdirSync(ds, d) == ds \cup {d}

\* analyzeStreams resolves; createHLSForStreams makes the output directory
\* and runs to its first await
AnalyzeEnd(r) ==
  /\ MainIdle
  /\ jobs[r].pc = "analyze"
  /\ LET j == [Returned(jobs[r]) EXCEPT !.metadata = Metadata(jobs[r]),
                                        !.streams = Buckets(Metadata(jobs[r])),
                                        !.mkdir = TRUE] IN
       /\ dirs' = MkdirSync(dirs, DirOf(j))
       /\ Resume(r, LoopHead(j, "video", 0), files)
  /\ UNCHANGED <<now, req, uploads, pendingRead, vsnap>>

\* video loop: the probe resolves with metadata.streams[streamIndex];
\* reading codec_name of undefined throws, else ffmpeg is started
VideoProbeEnd(r) ==
  /\ MainIdle
  /\ jobs[r].pc = "vprobe"
  /\ LET j == Returned(jobs[r])
         streamIndex == j.streams.video[j.i + 1]
         streamInfo == StreamAt(Metadata(j), streamIndex)
     IN  jobs' = [jobs EXCEPT ![r] =
                    IF streamInfo = Undefined THEN Fail(j, "TypeError")
                    ELSE CallEngine(j, "vgen", streamIndex,
                                    VideoCodecOption(streamInfo), "video",
                                    streamInfo)]
  /\ UNCHANGED <<now, req, uploads, dirs, files, pendingRead, vsnap>>

\* variant: the output path is built without the timestamp prefix
HlsOutputNoPrefix(j, r, kind) ==
  { File([DirOf(j) EXCEPT !.ts = 0], [kind |-> kind, i |-> j.i, ext |-> "m3u8"], r,
         <<[kind |-> kind, i |-> j.i, ext |-> "ts"]>>),
    File([DirOf(j) EXCEPT !.ts = 0], [kind |-> kind, i |-> j.i, ext |-> "ts"], r, <<>>) }

\* files ffmpeg has written when an HLS run ends: the stream-local
\* manifest, which lists the segments, and the segments (one stands for
\* video_i_000.ts, video_i_001.ts, ...)
HlsOutput(j, r, kind) ==
  { File(DirOf(j), [kind |-> kind, i |-> j.i, ext |-> "m3u8"], r,
         <<[kind |-> kind, i |-> j.i, ext |-> "ts"]>>),
    File(DirOf(j), [kind |-> kind, i |-> j.i, ext |-> "ts"], r, <<>>) }

RECURSIVE PutAll(_, _)
PutAll(fs, new) ==
  IF new = {} THEN fs
  ELSE LET f == CHOOSE g \in new : TRUE IN PutAll(Put(fs, f), new \ {f})

\* ffmpeg can end only if the mapped stream is in the file it reads
Mappable(j) ==
  StreamAt(Metadata(j), j.engines[Len(j.engines)].map) # Undefined

\* video 'end': push the variant entry, continue the video loop
VideoEnd(r) ==
  /\ MainIdle
  /\ jobs[r].pc = "vgen"
  /\ Mappable(jobs[r])
  /\ LET j == [Returned(jobs[r]) EXCEPT
                 !.playlistEntries = Append(@, VideoEntry(jobs[r].i))]
     IN  Resume(r, LoopHead(j, "video", j.i + 1),
                PutAll(files, HlsOutput(j, r, "video")))
  /\ UNCHANGED <<now, req, uploads, dirs, pendingRead, vsnap>>

\* isAudioStreamAAC resolves; the audio loop probes again
AacProbeEnd(r) ==
  /\ MainIdle
  /\ jobs[r].pc = "aprobe1"
  /\ LET j == Returned(jobs[r])
         streamIndex == j.streams.audio[j.i + 1]
     IN  jobs' = [jobs EXCEPT ![r] =
                    CallProbe([j EXCEPT
                                 !.isAAC = IsAudioStreamAAC(Metadata(j), streamIndex),
                                 !.seen = StreamAt(Metadata(j), streamIndex)],
                              "aprobe2", j.i)]
  /\ UNCHANGED <<now, req, uploads, dirs, files, pendingRead, vsnap>>

\* audio loop: the probe resolves, lang is taken, ffmpeg is started
AudioProbeEnd(r) ==
  /\ MainIdle
  /\ jobs[r].pc = "aprobe2"
  /\ LET j == Returned(jobs[r])
         streamIndex == j.streams.audio[j.i + 1]
         streamInfo == StreamAt(Metadata(j), streamIndex)
     IN  jobs' = [jobs EXCEPT ![r] =
                    CallEngine([j EXCEPT !.lang = Lang(streamInfo)], "agen",
                               streamIndex, AudioCodecOption(j.isAAC), "audio",
                               j.seen)]
  /\ UNCHANGED <<now, req, uploads, dirs, files, pendingRead, vsnap>>

\* audio 'end': push the rendition entry, continue the audio loop
AudioEnd(r) ==
  /\ MainIdle
  /\ jobs[r].pc = "agen"
  /\ Mappable(jobs[r])
  /\ LET j == [Returned(jobs[r]) EXCEPT
                 !.audioEntries = Append(@, AudioEntry(jobs[r].i, jobs[r].lang))]
     IN  Resume(r, LoopHead(j, "audio", j.i + 1),
                PutAll(files, HlsOutput(j, r, "audio")))
  /\ UNCHANGED <<now, req, uploads, dirs, pendingRead, vsnap>>

\* subtitle loop: the probe resolves; codec_name of undefined throws, an
\* unsupported codec continues with the next subtitle, else ffmpeg starts
SubtitleProbeEnd(r) ==
  /\ MainIdle
  /\ jobs[r].pc = "sprobe"
  /\ LET j == Returned(jobs[r])
         streamIndex == j.streams.subtitle[j.i + 1]
         streamInfo == StreamAt(Metadata(j), streamIndex)
     IN  IF streamInfo = Undefined
         THEN /\ jobs' = [jobs EXCEPT ![r] = Fail(j, "TypeError")]
              /\ files' = files
         ELSE IF SkipSubtitle(streamInfo)
         THEN Resume(r, LoopHead(Skip(j, streamIndex, streamInfo), "subtitle",
                                 j.i + 1), files)
         ELSE /\ jobs' = [jobs EXCEPT ![r] =
                            CallEngine([j EXCEPT !.lang = Lang(streamInfo)], "sgen",
                                       streamIndex, "webvtt", "sub", streamInfo)]
              /\ files' = files
  /\ UNCHANGED <<now, req, uploads, dirs, pendingRead, vsnap>>

\* files present after a subtitle 'end': the track ffmpeg extracted and
\* the manifest the handler wrote with fs.writeFileSync
SubtitleOutput(j, r) ==
  { File(DirOf(j), [kind |-> "sub", i |-> j.i, ext |-> "vtt"], r, <<>>),
    File(DirOf(j), [kind |-> "sub", i |-> j.i, ext |-> "m3u8"], r,
         <<[kind |-> "sub", i |-> j.i, ext |-> "vtt"]>>) }

\* subtitle 'end': write sub_i.m3u8, push the rendition entry, continue
SubtitleEnd(r) ==
  /\ MainIdle
  /\ jobs[r].pc = "sgen"
  /\ Mappable(jobs[r])
  /\ LET j == [Returned(jobs[r]) EXCEPT
                 !.subtitleEntries = Append(@, SubtitleEntry(jobs[r].i, jobs[r].lang))]
     IN  Resume(r, LoopHead(j, "subtitle", j.i + 1),
                PutAll(files, SubtitleOutput(j, r)))
  /\ UNCHANGED <<now, req, uploads, dirs, pendingRead, vsnap>>

\* variant: the location is built from the stored filename
StreamUrlOfFile(j) == <<FileOf(j), MasterName>>

\* `/streams/${fileName}/master.m3u8`: the location the handler answers
\* with, as <<directory, file name>>
StreamUrl(j) == <<DirOf(j), MasterName>>

\* fs.writeFileSync writes the joined entries and returns; the handler
\* sends the success response in the same turn of the event loop
WriteEnd(r) ==
  /\ jobs[r].pc = "write"
  /\ files' = Put(files, File(DirOf(jobs[r]), MasterName, r, MasterPlaylist(jobs[r])))
  /\ jobs' = [jobs EXCEPT ![r] =
                [@ EXCEPT !.pc = "done",
                          !.res = Append(@, [status |-> 200,
                                             streamUrl |-> StreamUrl(jobs[r])])]]
  /\ UNCHANGED <<now, req, uploads, dirs, pendingRead, vsnap>>

\* fs.writeFileSync throws after the open (disk full, I/O error): the
\* handler catches; the truncated file stays
WriteError(r) ==
  /\ jobs[r].pc = "write"
  /\ jobs' = [jobs EXCEPT ![r] = Fail(@, "write")]
  /\ UNCHANGED <<now, req, uploads, dirs, files, pendingRead, vsnap>>

\* GET /streams/<dir>/master.m3u8 accepted: express.static queues the read
StaticRequest(d) ==
  /\ MainIdle
  /\ pendingRead = <<>>
  /\ pendingRead' = <<d>>
  /\ UNCHANGED <<now, req, jobs, uploads, dirs, files, vsnap>>

\* what a read of output/<d>/master.m3u8 returns now
Observed(d) ==
  IF Exists(files, d, MasterName) THEN <<Content(files, d, MasterName)>> ELSE <<>>

\* the queued read runs on the thread pool, also while the main thread
\* is inside writeFileSync; the reader gets Observed(pendingRead[1])
StaticRead ==
  /\ pendingRead # <<>>
  /\ pendingRead' = <<>>
  /\ UNCHANGED <<now, req, jobs, uploads, dirs, files, vsnap>>

\* GET /videos: fsPromises.readdir(outputDir) resolves with the directories
VideosReaddir ==
  /\ vsnap = <<>>
  /\ vsnap' = <<dirs>>
  /\ UNCHANGED <<now, req, jobs, uploads, dirs, files, pendingRead>>

\* the list /videos answers with: directories holding a master.m3u8
VideosList(snap) == {d \in snap : Exists(files, d, MasterName)}

\* GET /videos continuation: existsSync per directory, res.json(videos)
VideosRespond ==
  /\ MainIdle
  /\ vsnap # <<>>
  /\ vsnap' = <<>>
  /\ UNCHANGED <<now, req, jobs, uploads, dirs, files, pendingRead>>

Init ==
  /\ now = 0
  /\ req \in SingleRequests \cup OverlappingRequests
  /\ jobs = [r \in DOMAIN req |-> NewJob]
  /\ uploads = {}
  /\ dirs = {}
  /\ files = {}
  /\ pendingRead = <<>>
  /\ vsnap = <<>>

Next ==
  \/ Tick
  \/ \E r \in DOMAIN jobs : Upload(r)
  \/ \E r \in DOMAIN jobs : UploadNoFile(r)
  \/ \E r \in DOMAIN jobs : ProbeError(r)
  \/ \E r \in DOMAIN jobs : EngineError(r)
  \/ \E r \in DOMAIN jobs : AnalyzeEnd(r)
  \/ \E r \in DOMAIN jobs : VideoProbeEnd(r)
  \/ \E r \in DOMAIN jobs : VideoEnd(r)
  \/ \E r \in DOMAIN jobs : AacProbeEnd(r)
  \/ \E r \in DOMAIN jobs : AudioProbeEnd(r)
  \/ \E r \in DOMAIN jobs : AudioEnd(r)
  \/ \E r \in DOMAIN jobs : SubtitleProbeEnd(r)
  \/ \E r \in DOMAIN jobs : SubtitleEnd(r)
  \/ \E r \in DOMAIN jobs : WriteEnd(r)
  \/ \E r \in DOMAIN jobs : WriteError(r)
  \/ \E d \in dirs : StaticRequest(d)
  \/ StaticRead
  \/ VideosReaddir
  \/ VideosRespond

Spec == Init /\ [][Next]_vars

(***************************************************************************)
(* Vocabulary of the properties.                                           *)
(***************************************************************************)
Range(seq) == {seq[k] : k \in DOMAIN seq}

Requests == DOMAIN jobs

\* requests that multer stored: they have an upload path and a job id
Stored == {r \in Requests : jobs[r].filename # <<>>}

\* lines of a manifest text that declare a rendition of the given type
LinesOf(m, type) == {k \in DOMAIN m : m[k].type = type}

DefaultLines(m, type) == {k \in LinesOf(m, type) : m[k].default}

HasType(metadata, t) == \E k \in DOMAIN metadata : metadata[k].codec_type = t

Unsupported == {"hdmv_pgs_subtitle", "subrip"}

EnginesOf(j, kind) == {k \in DOMAIN j.engines : j.engines[k].out.kind = kind}

\* number of ffprobe calls of a job that runs all its loops
ExpectedProbes(j) ==
  1 + Len(j.streams.video) + 2 * Len(j.streams.audio) + Len(j.streams.subtitle)

(***************************************************************************)
(* C1.  Claim: in the master.m3u8 of every completed job the number of     *)
(* subtitle renditions with DEFAULT=YES is 1 if at least one subtitle      *)
(* stream was accepted (not skipped), else 0.                              *)
(* The code sets the flag by i === 0, the position in the subtitle bucket, *)
(* so a skipped first subtitle leaves no default: TLC refutes this.        *)
(***************************************************************************)
C1_OneDefaultSubtitle ==
  \A r \in Requests :
    jobs[r].pc = "done" =>
      LET m == MasterPlaylist(jobs[r]) IN
      Cardinality(DefaultLines(m, "SUBTITLES")) =
        IF LinesOf(m, "SUBTITLES") # {} THEN 1 ELSE 0

(***************************************************************************)
(* C2.  Claim as stated: whenever a probe of a job has failed, the         *)
(* directory output/<jobId> does not exist.  Refuted: the probes of the    *)
(* video, audio and subtitle loops run after mkdirSync.                    *)
(***************************************************************************)
C2_ProbeFailureNoDir ==
  \A r \in Requests :
    jobs[r].err \in ProbePcs => DirOf(jobs[r]) \notin dirs

(***************************************************************************)
(* C2, amended.  If the analysis probe of a job failed, the job has not    *)
(* called mkdirSync, and output/<jobId> exists only if another job with    *)
(* the same identifier made it; if a later probe failed, the job has made  *)
(* the directory and it exists.                                            *)
(***************************************************************************)
C2_AnalysisFailureNoDir ==
  \A r \in Requests :
    /\ jobs[r].err = "analyze" =>
         /\ ~jobs[r].mkdir
         /\ DirOf(jobs[r]) \in dirs =>
              \E q \in Stored \ {r} :
                 jobs[q].mkdir /\ DirOf(jobs[q]) = DirOf(jobs[r])
    /\ jobs[r].err \in ProbePcs \ {"analyze"} =>
         jobs[r].mkdir /\ DirOf(jobs[r]) \in dirs

C2_Witness ==
  \E r \in Requests : jobs[r].err = "analyze" /\ DirOf(jobs[r]) \notin dirs

(***************************************************************************)
(* C3.  Claim: a read of output/<jobId>/master.m3u8 that can run now       *)
(* finds the file absent or holding the complete manifest of a job with    *)
(* that identifier.  Refuted: writeFileSync truncates the file in place    *)
(* and a read queued on the thread pool can run before the text is in it.  *)
(* (A job whose writeFileSync threw is not a completed job: left aside.)   *)
(***************************************************************************)
C3_ManifestNeverPartial ==
  pendingRead # <<>> =>
    LET d == pendingRead[1] IN
    \/ \E r \in Stored : DirOf(jobs[r]) = d /\ jobs[r].err = "write"
    \/ Observed(d) = <<>>
    \/ \E r \in Stored :
         /\ DirOf(jobs[r]) = d
         /\ jobs[r].pc \in {"write", "done"}
         /\ Observed(d) = <<MasterPlaylist(jobs[r])>>

(***************************************************************************)
(* C4.  Claim: any two stored requests have distinct job identifiers and   *)
(* distinct upload paths.  Refuted: both derive from Date.now() and the    *)
(* original name, equal for two uploads in one millisecond.                *)
(***************************************************************************)
C4_DistinctJobIds ==
  \A r, q \in Stored :
    r # q => /\ DirOf(jobs[r]) # DirOf(jobs[q])
             /\ FileOf(jobs[r]) # FileOf(jobs[q])

(***************************************************************************)
(* C5.  Claim as stated: a job that has ended, successfully or not, has    *)
(* called ffprobe exactly once.  Refuted: every loop iteration probes.     *)
(***************************************************************************)
C5_OneProbePerJob ==
  \A r \in Requests :
    jobs[r].pc \in {"done", "failed"} => jobs[r].probes = 1

(***************************************************************************)
(* C5, amended.  A job that ended successfully has called ffprobe once in  *)
(* analyzeStreams, once per video stream, twice per audio stream and once  *)
(* per subtitle stream; a job that failed at least once and at most that   *)
(* often.                                                                  *)
(***************************************************************************)
C5_ProbeCount ==
  \A r \in Requests :
    /\ jobs[r].pc = "done" => jobs[r].probes = ExpectedProbes(jobs[r])
    /\ jobs[r].pc = "failed" =>
         jobs[r].probes >= 1 /\ jobs[r].probes <= ExpectedProbes(jobs[r])

C5_Witness ==
  \E r \in Requests :
    /\ jobs[r].pc = "done"
    /\ jobs[r].probes >= 5
    /\ Len(jobs[r].streams.video) > 0
    /\ Len(jobs[r].streams.audio) > 0

(***************************************************************************)
(* C6.  Claim: once a probe or engine call of a job has signalled an       *)
(* error, the job has no call in flight, has answered 500 and nothing      *)
(* else, has written no master.m3u8, and /videos does not list its         *)
(* identifier.  Refuted for the listing: a job that shares its identifier  *)
(* (C4) finds the master.m3u8 of the other job in its directory.           *)
(***************************************************************************)
C6_FailFast ==
  \A r \in Requests :
    jobs[r].err \in ProbePcs \cup EnginePcs =>
      /\ jobs[r].pc = "failed"
      /\ jobs[r].inflight = 0
      /\ jobs[r].res = <<[status |-> 500, streamUrl |-> <<>>]>>
      /\ ~\E f \in files : f.by = r /\ f.name = MasterName
      /\ DirOf(jobs[r]) \notin VideosList(dirs)

(***************************************************************************)
(* C7.  Every job follows Analyzing -> GeneratingVideo -> GeneratingAudio  *)
(* -> GeneratingSubtitles -> Assembling -> Done: a step never moves a job  *)
(* back in that order (a state whose bucket is empty is passed without a   *)
(* call); all video generations have ended before the first audio call,    *)
(* all audio generations before the first subtitle call, and master.m3u8   *)
(* is opened only after the last subtitle step; from every non-terminal    *)
(* state a step to Failed is possible; Done and Failed are never left.     *)
(***************************************************************************)
Phase(pc) ==
  CASE pc = "new" -> "New"
    [] pc = "analyze" -> "Analyzing"
    [] pc \in {"vprobe", "vgen"} -> "GeneratingVideo"
    [] pc \in {"aprobe1", "aprobe2", "agen"} -> "GeneratingAudio"
    [] pc \in {"sprobe", "sgen"} -> "GeneratingSubtitles"
    [] pc = "write" -> "Assembling"
    [] pc = "done" -> "Done"
    [] pc = "failed" -> "Failed"
    [] OTHER -> "Crashed"

PhaseRank(ph) ==
  CASE ph = "New" -> 0
    [] ph = "Analyzing" -> 1
    [] ph = "GeneratingVideo" -> 2
    [] ph = "GeneratingAudio" -> 3
    [] ph = "GeneratingSubtitles" -> 4
    [] ph = "Assembling" -> 5
    [] ph = "Done" -> 6
    [] OTHER -> 7

Running == {"Analyzing", "GeneratingVideo", "GeneratingAudio",
            "GeneratingSubtitles", "Assembling"}

VideoStepsOver(j) ==
  /\ Len(j.playlistEntries) = Len(j.streams.video)
  /\ Cardinality(EnginesOf(j, "video")) = Len(j.streams.video)

AudioStepsOver(j) ==
  /\ Len(j.audioEntries) = Len(j.streams.audio)
  /\ Cardinality(EnginesOf(j, "audio")) = Len(j.streams.audio)

SubtitleStepsOver(j) ==
  /\ Len(j.subtitleEntries) + Len(j.skipped) = Len(j.streams.subtitle)
  /\ Cardinality(EnginesOf(j, "sub")) = Len(j.subtitleEntries)

C7_Order ==
  \A r \in Requests :
    LET j == jobs[r]
        ph == Phase(j.pc)
    IN  /\ ph \in {"New", "Analyzing", "GeneratingVideo"} =>
             EnginesOf(j, "audio") = {} /\ EnginesOf(j, "sub") = {}
        /\ ph = "GeneratingAudio" =>
             VideoStepsOver(j) /\ EnginesOf(j, "sub") = {}
        /\ ph = "GeneratingSubtitles" => VideoStepsOver(j) /\ AudioStepsOver(j)
        /\ ph \in {"Assembling", "Done"} =>
             VideoStepsOver(j) /\ AudioStepsOver(j) /\ SubtitleStepsOver(j)
        /\ (\E f \in files : f.by = r /\ f.name = MasterName) =>
             /\ VideoStepsOver(j) /\ AudioStepsOver(j) /\ SubtitleStepsOver(j)
             /\ ph \in {"Assembling", "Done"} \/ j.err = "write"

C7_FailedReachable ==
  \A r \in Requests :
    /\ jobs[r].pc \in ProbePcs /\ MainIdle => ENABLED ProbeError(r)
    /\ jobs[r].pc \in EnginePcs /\ MainIdle => ENABLED EngineError(r)
    /\ jobs[r].pc = "write" => ENABLED WriteError(r)

C7_Step ==
  \A r \in Requests :
    LET a == Phase(jobs[r].pc)
        b == Phase(jobs'[r].pc)
    IN  /\ a \in {"Done", "Failed"} => jobs'[r] = jobs[r]
        /\ a \in Running =>
             b = "Failed" \/ (b \in Running \cup {"Done"} /\ PhaseRank(b) >= PhaseRank(a))

C7_StateOrder == [](C7_Order /\ C7_FailedReachable) /\ [][C7_Step]_vars

C7_Witness ==
  \E r \in Requests :
    /\ jobs[r].pc = "done"
    /\ EnginesOf(jobs[r], "video") # {}
    /\ EnginesOf(jobs[r], "audio") # {}
    /\ EnginesOf(jobs[r], "sub") # {}

(***************************************************************************)
(* C8.  The lines of every master.m3u8 on disk are in the order: audio     *)
(* lines by ascending type-local index, then subtitle lines by ascending   *)
(* type-local index, then video lines by ascending type-local index        *)
(* (video is generated first and listed last).                             *)
(***************************************************************************)
TypeRank(t) == CASE t = "AUDIO" -> 1 [] t = "SUBTITLES" -> 2 [] OTHER -> 3

Ordered(m) ==
  \A a, b \in DOMAIN m :
    a < b => \/ TypeRank(m[a].type) < TypeRank(m[b].type)
             \/ m[a].type = m[b].type /\ m[a].uri.i < m[b].uri.i

C8_ManifestOrder ==
  \A f \in files : f.name = MasterName => Ordered(f.data)

C8_Witness ==
  \E f \in files :
    /\ f.name = MasterName
    /\ LinesOf(f.data, "AUDIO") # {}
    /\ LinesOf(f.data, "SUBTITLES") # {}
    /\ LinesOf(f.data, "VIDEO") # {}
    /\ jobs[f.by].engines[1].out.kind = "video"

(***************************************************************************)
(* C9.  In the master.m3u8 of every completed job the number of audio      *)
(* renditions with DEFAULT=YES is 1 if the analysed container has an audio *)
(* stream, else 0, and the flagged rendition is audio_0.                   *)
(***************************************************************************)
C9_OneDefaultAudio ==
  \A r \in Requests :
    jobs[r].pc = "done" =>
      LET m == MasterPlaylist(jobs[r]) IN
      /\ Cardinality(DefaultLines(m, "AUDIO")) =
           IF HasType(jobs[r].metadata, "audio") THEN 1 ELSE 0
      /\ \A k \in LinesOf(m, "AUDIO") : m[k].default <=> m[k].uri.i = 0

C9_Witness ==
  \E r \in Requests :
    /\ jobs[r].pc = "done"
    /\ Cardinality(LinesOf(MasterPlaylist(jobs[r]), "AUDIO")) >= 2

(***************************************************************************)
(* C10.  Decisions taken by the loops: a stream is skipped iff it is in    *)
(* the subtitle bucket and its probed codec is hdmv_pgs_subtitle or        *)
(* subrip; a video stream is given to ffmpeg with copy iff its probed      *)
(* codec is h264, else libx264; an audio stream with copy iff its probed   *)
(* codec is aac, else aac re-encoding; no video or audio stream is         *)
(* skipped.                                                                *)
(***************************************************************************)
C10_Decisions ==
  \A r \in Requests :
    LET j == jobs[r] IN
    /\ \A k \in DOMAIN j.engines :
         LET e == j.engines[k] IN
         /\ e.out.kind = "video" =>
              /\ e.map \in Range(j.streams.video)
              /\ e.codec = IF e.info.codec_name = "h264" THEN "copy" ELSE "libx264"
         /\ e.out.kind = "audio" =>
              /\ e.map \in Range(j.streams.audio)
              /\ e.codec = IF e.info.codec_name = "aac" THEN "copy" ELSE "aac"
         /\ e.out.kind = "sub" =>
              /\ e.map \in Range(j.streams.subtitle)
              /\ e.info.codec_name \notin Unsupported
              /\ e.codec = "webvtt"
    /\ \A k \in DOMAIN j.skipped :
         /\ j.skipped[k].map \in Range(j.streams.subtitle)
         /\ j.skipped[k].info.codec_name \in Unsupported
    /\ j.pc = "done" =>
         /\ {j.engines[k].map : k \in EnginesOf(j, "video")} = Range(j.streams.video)
         /\ {j.engines[k].map : k \in EnginesOf(j, "audio")} = Range(j.streams.audio)
         /\ {j.engines[k].map : k \in EnginesOf(j, "sub")}
              \cup {j.skipped[k].map : k \in DOMAIN j.skipped}
              = Range(j.streams.subtitle)

C10_Witness ==
  \E r \in Requests :
    LET j == jobs[r] IN
    /\ j.pc = "done"
    /\ j.skipped # <<>>
    /\ \E k \in DOMAIN j.engines : j.engines[k].codec = "copy"
    /\ \E k \in DOMAIN j.engines : j.engines[k].codec \in {"libx264", "aac"}

(***************************************************************************)
(* C11.  For every subtitle stream the job found to have an unsupported    *)
(* codec: no ffmpeg invocation maps it or writes sub_<i>, the job has      *)
(* written no sub_<i>.vtt and no sub_<i>.m3u8, and no manifest line names  *)
(* sub_<i>.m3u8; no subtitle given to ffmpeg has an unsupported codec.  A  *)
(* job all of whose streams are unsupported subtitles ends successfully    *)
(* with no ffmpeg invocation and a manifest without any line.              *)
(***************************************************************************)
SubName(i, ext) == [kind |-> "sub", i |-> i, ext |-> ext]

OnlySkipped(j) ==
  /\ j.streams.video = <<>>
  /\ j.streams.audio = <<>>
  /\ j.skipped # <<>>
  /\ Len(j.skipped) = Len(j.streams.subtitle)

C11_SkippedLeavesNothing ==
  \A r \in Requests :
    LET j == jobs[r] IN
    /\ \A k \in DOMAIN j.skipped :
         LET s == j.skipped[k] IN
         /\ s.info.codec_name \in Unsupported
         /\ \A e \in Range(j.engines) :
              e.map # s.map /\ e.out # [kind |-> "sub", i |-> s.i]
         /\ \A f \in files :
              f.by = r => f.name \notin {SubName(s.i, "vtt"), SubName(s.i, "m3u8")}
         /\ \A l \in Range(MasterPlaylist(j)) : l.uri # SubName(s.i, "m3u8")
    /\ \A e \in Range(j.engines) :
         e.out.kind = "sub" => e.info.codec_name \notin Unsupported
    /\ OnlySkipped(j) /\ j.pc \notin {"sprobe", "failed"} =>
         /\ j.pc \in {"write", "done"}
         /\ j.engines = <<>>
         /\ MasterPlaylist(j) = <<>>
         /\ j.pc = "done" => j.res[1].status = 200

C11_Witness ==
  \E r \in Requests :
    /\ jobs[r].pc = "done"
    /\ OnlySkipped(jobs[r])
    /\ Len(jobs[r].metadata) = 1
    /\ jobs[r].res[1].status = 200

(***************************************************************************)
(* C12.  A job that ended successfully has invoked ffmpeg exactly once     *)
(* per video stream (copy iff h264, else libx264), exactly once per audio  *)
(* stream (copy iff aac, else aac encoding) and exactly once per subtitle  *)
(* stream it did not skip, and its manifest has as many video, audio and   *)
(* subtitle entries as those invocations.  For the container h264, aac,    *)
(* ac3, ass: copy, copy, aac, webvtt, and 2 audio, 1 subtitle and 1 video  *)
(* entries.                                                                *)
(***************************************************************************)
MapsOf(j, kind) == {j.engines[k].map : k \in EnginesOf(j, kind)}

C12_OneInvocationPerStream ==
  \A r \in Requests :
    LET j == jobs[r]
        m == MasterPlaylist(j)
    IN  j.pc = "done" =>
          /\ Cardinality(EnginesOf(j, "video")) = Len(j.streams.video)
          /\ MapsOf(j, "video") = Range(j.streams.video)
          /\ Cardinality(EnginesOf(j, "audio")) = Len(j.streams.audio)
          /\ MapsOf(j, "audio") = Range(j.streams.audio)
          /\ Cardinality(EnginesOf(j, "sub")) = Len(j.streams.subtitle) - Len(j.skipped)
          /\ MapsOf(j, "sub") =
               Range(j.streams.subtitle) \ {j.skipped[k].map : k \in DOMAIN j.skipped}
          /\ \A k \in EnginesOf(j, "video") :
               (j.engines[k].codec = "copy") <=> (j.engines[k].info.codec_name = "h264")
          /\ \A k \in EnginesOf(j, "audio") :
               (j.engines[k].codec = "copy") <=> (j.engines[k].info.codec_name = "aac")
          /\ Cardinality(LinesOf(m, "VIDEO")) = Cardinality(EnginesOf(j, "video"))
          /\ Cardinality(LinesOf(m, "AUDIO")) = Cardinality(EnginesOf(j, "audio"))
          /\ Cardinality(LinesOf(m, "SUBTITLES")) = Cardinality(EnginesOf(j, "sub"))
          /\ j.metadata = RoundTrip =>
               /\ [k \in DOMAIN j.engines |-> j.engines[k].codec]
                    = <<"copy", "copy", "aac", "webvtt">>
               /\ [k \in DOMAIN j.engines |-> j.engines[k].map] = <<0, 1, 2, 3>>
               /\ Cardinality(LinesOf(m, "AUDIO")) = 2
               /\ Cardinality(LinesOf(m, "SUBTITLES")) = 1
               /\ Cardinality(LinesOf(m, "VIDEO")) = 1

C12_Witness ==
  \E r \in Requests : jobs[r].pc = "done" /\ jobs[r].metadata = RoundTrip

(***************************************************************************)
(* C13.  A job has at most one probe or engine call in flight at any time: *)
(* it has exactly one while it waits at a probe or generation step and     *)
(* none otherwise.  A step of the program starts at most one call of a     *)
(* job, and starts one only when the job had no call in flight (the        *)
(* request arrives) or when the callback of its call in flight arrives in  *)
(* that step.                                                              *)
(***************************************************************************)
Issued(j) == j.probes + Len(j.engines)

C13_OneInFlight ==
  \A r \in Requests :
    LET j == jobs[r] IN
    /\ j.inflight \in {0, 1}
    /\ j.inflight = 1 <=> j.pc \in ProbePcs \cup EnginePcs

C13_Step ==
  \A r \in Requests :
    LET j == jobs[r]
        k == jobs'[r]
    IN  /\ Issued(k) \in {Issued(j), Issued(j) + 1}
        /\ Issued(k) = Issued(j) + 1 =>
             /\ k.inflight = 1
             /\ j.pc = "new" \/ j.pc \in ProbePcs \cup EnginePcs
             /\ j.pc = "new" => j.inflight = 0
        /\ j.inflight = 1 /\ k.pc # j.pc => k.inflight = 0 \/ Issued(k) = Issued(j) + 1

C13_Sequential == []C13_OneInFlight /\ [][C13_Step]_vars

C13_Witness ==
  \E r \in Requests :
    /\ jobs[r].inflight = 1
    /\ jobs[r].pc = "sgen"
    /\ Len(jobs[r].engines) >= 2
    /\ jobs[r].probes >= 4

(***************************************************************************)
(* C14.  The step that sends a job's success response leaves the job's     *)
(* master.m3u8 on disk, written by that job with all of its entries, and   *)
(* the streamUrl sent is /streams/<jobId>/master.m3u8 of the job's own     *)
(* identifier, so the location names an existing manifest when the         *)
(* response is sent.  A job has at most one response; a finished job has   *)
(* the success response, a failed job has status 500 and no streamUrl.     *)
(***************************************************************************)
C14_Responses ==
  \A r \in Requests :
    LET j == jobs[r] IN
    /\ Len(j.res) <= 1
    /\ j.pc = "done" =>
         /\ j.res = <<[status |-> 200, streamUrl |-> <<JobId(FileOf(j)), MasterName>>]>>
         /\ Exists(files, j.res[1].streamUrl[1], j.res[1].streamUrl[2])
    /\ j.pc = "failed" => j.res = <<[status |-> 500, streamUrl |-> <<>>]>>
    /\ j.res # <<>> => j.pc \in {"done", "failed"}

C14_Sent ==
  \A r \in Requests :
    (jobs[r].res = <<>> /\ jobs'[r].res # <<>> /\ jobs'[r].res[1].status = 200) =>
      LET k == jobs'[r]
          url == k.res[1].streamUrl
      IN  /\ jobs[r].pc = "write"
          /\ url = <<JobId(FileOf(k)), MasterName>>
          /\ \E f \in files' :
               /\ f.dir = url[1] /\ f.name = url[2]
               /\ f.by = r
               /\ f.data = MasterPlaylist(k)

C14_ResponseAfterManifest == []C14_Responses /\ [][C14_Sent]_vars

C14_Witness ==
  \E r \in Requests :
    /\ jobs[r].pc = "done"
    /\ jobs[r].res[1].status = 200
    /\ MasterPlaylist(jobs[r]) # <<>>
    /\ Content(files, DirOf(jobs[r]), MasterName) = MasterPlaylist(jobs[r])

(***************************************************************************)
(* C15.  Every generation invocation of a job maps the container-native    *)
(* index of one stream of the analysed container, and names its output by  *)
(* the kind and the type-local number of that stream: the number of        *)
(* streams of the same type with a smaller container index.  No two        *)
(* invocations of a job map the same container index and no two write to   *)
(* the same output name; the stream files a job wrote carry the output     *)
(* name of one of its invocations.                                         *)
(***************************************************************************)
BucketOf(j, kind) ==
  CASE kind = "video" -> j.streams.video
    [] kind = "audio" -> j.streams.audio
    [] OTHER -> j.streams.subtitle

TypeOf(kind) == IF kind = "sub" THEN "subtitle" ELSE kind

C15_MapAndNames ==
  \A r \in Requests :
    LET j == jobs[r] IN
    /\ \A k \in DOMAIN j.engines :
         LET e == j.engines[k]
             bucket == BucketOf(j, e.out.kind)
         IN  /\ e.map \in 0..(Len(j.metadata) - 1)
             /\ j.metadata[e.map + 1].codec_type = TypeOf(e.out.kind)
             /\ e.out.i = Cardinality({x \in 0..(e.map - 1) :
                             j.metadata[x + 1].codec_type = TypeOf(e.out.kind)})
             /\ e.out.i < Len(bucket) /\ bucket[e.out.i + 1] = e.map
    /\ \A k1, k2 \in DOMAIN j.engines :
         k1 # k2 => /\ j.engines[k1].map # j.engines[k2].map
                    /\ j.engines[k1].out # j.engines[k2].out
    /\ \A f \in files :
         f.by = r /\ f.name # MasterName =>
           \E k \in DOMAIN j.engines :
             j.engines[k].out = [kind |-> f.name.kind, i |-> f.name.i]

C15_Witness ==
  \E r \in Requests :
    LET j == jobs[r] IN
    /\ j.pc = "done"
    /\ \E k1, k2 \in DOMAIN j.engines :
         /\ k1 # k2
         /\ j.engines[k1].out.kind = j.engines[k2].out.kind
         /\ j.engines[k2].out.i # j.engines[k2].map
    /\ \E k1, k2 \in DOMAIN j.engines :
         /\ j.engines[k1].out.i = j.engines[k2].out.i
         /\ j.engines[k1].out.kind # j.engines[k2].out.kind

(***************************************************************************)
(* C16.  For the stream list the analysis probe reported, analyzeStreams   *)
(* returns three buckets such that every stream of type video, audio or    *)
(* subtitle has its container index exactly once in the bucket of its      *)
(* type and in no other bucket, a stream of any other type has its index   *)
(* in no bucket, every bucket element is the index of a reported stream,   *)
(* and the indexes of each bucket are strictly ascending.                  *)
(***************************************************************************)
Occurrences(bucket, x) == Cardinality({p \in DOMAIN bucket : bucket[p] = x})

Ascending(bucket) ==
  \A p, q \in DOMAIN bucket : p < q => bucket[p] < bucket[q]

Analysed(j) == j.mkdir

C16_Buckets ==
  \A r \in Requests :
    LET j == jobs[r]
        m == j.metadata
        b == j.streams
    IN  Analysed(j) =>
          /\ \A x \in 0..(Len(m) - 1) :
               LET t == m[x + 1].codec_type IN
               /\ Occurrences(b.video, x) = (IF t = "video" THEN 1 ELSE 0)
               /\ Occurrences(b.audio, x) = (IF t = "audio" THEN 1 ELSE 0)
               /\ Occurrences(b.subtitle, x) = (IF t = "subtitle" THEN 1 ELSE 0)
          /\ \A bucket \in {b.video, b.audio, b.subtitle} :
               /\ Ascending(bucket)
               /\ Range(bucket) \subseteq 0..(Len(m) - 1)

C16_Witness ==
  \E r \in Requests :
    LET j == jobs[r] IN
    /\ Analysed(j)
    /\ Len(j.metadata) >= 3
    /\ j.metadata[1].codec_type = "data"
    /\ j.metadata[2].codec_type = "audio"
    /\ j.metadata[3].codec_type = "audio"
    /\ j.streams.audio = <<1, 2>>

(***************************************************************************)
(* C17.  A stored job whose identifier no other stored job has: every      *)
(* file it wrote lies in its own output directory and every file of that   *)
(* directory was written by it, at every point of every interleaving with  *)
(* the other request; the container it analysed and the streams its        *)
(* invocations read are those of its own upload; and when it has ended     *)
(* successfully its master.m3u8 holds one entry per invocation of its own  *)
(* and nothing else, with the language of its own stream.                  *)
(***************************************************************************)
DistinctId(r) ==
  /\ r \in Stored
  /\ \A q \in Stored \ {r} : DirOf(jobs[q]) # DirOf(jobs[r])

OwnEntry(l, e, inv) ==
  /\ l.uri = [kind |-> e.out.kind, i |-> e.out.i, ext |-> "m3u8"]
  /\ l.type # "VIDEO" => l.lang = Lang(inv[e.map + 1])

C17_NoInterference ==
  \A r \in Requests :
    LET j == jobs[r] IN
    DistinctId(r) =>
      /\ \A f \in files : f.by = r <=> f.dir = DirOf(j)
      /\ Analysed(j) => j.metadata = req[r].inv
      /\ \A e \in Range(j.engines) : e.info = req[r].inv[e.map + 1]
      /\ \A s \in Range(j.skipped) : s.info = req[r].inv[s.map + 1]
      /\ j.pc = "done" =>
           /\ Exists(files, DirOf(j), MasterName)
           /\ LET m == Content(files, DirOf(j), MasterName) IN
              /\ m = MasterPlaylist(j)
              /\ Len(m) = Len(j.engines)
              /\ \A l \in Range(m) :
                   \E e \in Range(j.engines) : OwnEntry(l, e, req[r].inv)
              /\ \A e \in Range(j.engines) :
                   \E l \in Range(m) : OwnEntry(l, e, req[r].inv)

C17_Witness ==
  /\ Cardinality(Requests) = 2
  /\ \A r \in Requests :
       /\ DistinctId(r)
       /\ jobs[r].pc \in EnginePcs \cup {"write"}
       /\ \E f \in files : f.by = r /\ f.name # MasterName
  /\ \E r \in Requests : jobs[r].pc \in EnginePcs
  /\ req[1].inv # req[2].inv

(***************************************************************************)
(* C18.  A request the handler has taken up and that waits for no probe    *)
(* or engine callback and is not inside the manifest write has received    *)
(* exactly one response, and its job is Done (status 200) or Failed        *)
(* (status 500); this includes the request that carries no file.  A        *)
(* request in any other state can never be answered later, since no        *)
(* callback of it is outstanding.                                          *)
(***************************************************************************)
Waiting(j) == j.pc \in ProbePcs \cup EnginePcs \cup {"write"}

C18_Answered ==
  \A r \in Requests :
    LET j == jobs[r] IN
    (j.pc # "new" /\ ~Waiting(j)) =>
      /\ j.pc \in {"done", "failed"}
      /\ Len(j.res) = 1
      /\ j.res[1].status = (IF j.pc = "done" THEN 200 ELSE 500)

(***************************************************************************)
(* C19.  Every URI listed by the master.m3u8 of a job that ended           *)
(* successfully, and by every master.m3u8 on disk, names a stream-local    *)
(* manifest that exists in the job's output directory and that an          *)
(* invocation of the writing job produced, which has ended with 'end'.     *)
(* Every sub_<i>.m3u8 on disk lies beside its sub_<i>.vtt, and the         *)
(* extraction of that track by the job that wrote the manifest has ended.  *)
(***************************************************************************)
\* invocations of j whose 'end' event has arrived
Ended(j) ==
  IF j.pc \in EnginePcs \/ (j.pc = "failed" /\ j.err \in EnginePcs)
  THEN {j.engines[k].out : k \in 1..(Len(j.engines) - 1)}
  ELSE {j.engines[k].out : k \in DOMAIN j.engines}

Resolves(r, d, lines) ==
  \A l \in Range(lines) :
    /\ l.uri.ext = "m3u8"
    /\ Exists(files, d, l.uri)
    /\ [kind |-> l.uri.kind, i |-> l.uri.i] \in Ended(jobs[r])

C19_ReferentialIntegrity ==
  /\ \A r \in Requests :
       jobs[r].pc = "done" => Resolves(r, DirOf(jobs[r]), MasterPlaylist(jobs[r]))
  /\ \A f \in files :
       /\ f.name = MasterName => Resolves(f.by, f.dir, f.data)
       /\ (f.name.kind = "sub" /\ f.name.ext = "m3u8") =>
            /\ Exists(files, f.dir, SubName(f.name.i, "vtt"))
            /\ f.data = <<SubName(f.name.i, "vtt")>>
            /\ [kind |-> "sub", i |-> f.name.i] \in Ended(jobs[f.by])

C19_Witness ==
  \E r \in Requests :
    LET m == MasterPlaylist(jobs[r]) IN
    /\ jobs[r].pc = "done"
    /\ LinesOf(m, "VIDEO") # {}
    /\ LinesOf(m, "AUDIO") # {}
    /\ LinesOf(m, "SUBTITLES") # {}
    /\ Exists(files, DirOf(jobs[r]), SubName(0, "m3u8"))
    /\ Content(files, DirOf(jobs[r]), MasterName) = m

====
